---- MODULE Spec2Model ----
(***************************************************************************)
(* nc2parquet: the dimension-filter intersection and coordinate-           *)
(* combination engine (src/src/extract.rs, src/src/filters.rs).            *)
(*                                                                         *)
(* Conventions.  Rust indices (usize) are 0-based and are kept 0-based as  *)
(* VALUES (members of candidate sets, components of pairs, triplets and    *)
(* coordinate tuples).  Positions inside a TLA+ sequence are 1-based, so   *)
(* Rust's coord[p] with p = position(...) is coord[p] here with p counted  *)
(* from 1.  Option<T> is a sequence of length 0 (None) or 1 (Some).        *)
(* f64 coordinate values are modelled by integers: the code only compares  *)
(* them, subtracts them and takes absolute values.                         *)
(***************************************************************************)
EXTENDS Integers, Sequences, FiniteSets

\* ------------------------------------------------------------------ bounds
\* Size of every dimension of the data source.
DimLen == 2
\* Longest indices / pairs / triplets / points list a filter (result) carries.
MaxEntries == 2
\* Largest number of filters folded into one manager.
MaxFilters == 2

\* ------------------------------------------------------------ data source
\* Names of the dimensions of the file (a shrunken pres_temp_4D.nc).
DimNames == {"time", "level", "lat", "lon"}

\* Dimension lists of the variables a manager may be built for (rank 1..4).
Shapes ==
  { <<"time">>,
    <<"lat", "lon">>,
    <<"time", "lat", "lon">>,
    <<"time", "level", "lat", "lon">> }

\* The variables a manager may be built for: a data field of each shape, and
\* the coordinate variable "lat", whose only dimension carries its own name.
Targets ==
  { [name |-> "temperature", dims |-> order] : order \in Shapes }
    \cup { [name |-> "lat", dims |-> << "lat" >>] }

\* dim.len() for a dimension of the file.
DimSize(d) == IF d = "record" THEN 0 ELSE DimLen

\* 0 .. size-1, the Rust range (0..dim_size).
IndexRange(n) == 0 .. (n - 1)

\* ---------------------------------------------------------------- helpers
None == << >>
Some(x) == << x >>
IsSome(o) == Len(o) = 1
Unwrap(o) == o[1]

SeqToSet(s) == { s[k] : k \in 1 .. Len(s) }

\* All sequences over S of length at most n.
SeqsUpTo(S, n) == UNION { [1 .. k -> S] : k \in 0 .. n }

\* The orders in which iterating a HashSet may yield its elements: Rust's
\* HashSet iteration order is unspecified, so every permutation is possible.
Orderings(S) == { s \in [1 .. Cardinality(S) -> S] : SeqToSet(s) = S }

\* Position falling back to the first position when the name is absent.
PositionOrFirst(order, name) ==
  IF \E k \in 1 .. Len(order) : order[k] = name
  THEN CHOOSE k \in 1 .. Len(order) :
         /\ order[k] = name
         /\ \A j \in 1 .. (k - 1) : order[j] # name
  ELSE 1

\* Vec::iter().position(|d| d == name): the first position holding name,
\* or 0 when there is none (None).
Position(order, name) ==
  IF \E k \in 1 .. Len(order) : order[k] = name
  THEN CHOOSE k \in 1 .. Len(order) :
         /\ order[k] = name
         /\ \A j \in 1 .. (k - 1) : order[j] # name
  ELSE 0

\* Concatenation of a sequence of sequences (successive Vec::push calls).
RECURSIVE Flatten(_)
Flatten(ss) == IF ss = << >> THEN << >> ELSE Head(ss) \o Flatten(Tail(ss))

RECURSIVE InsertSorted(_, _)
InsertSorted(x, s) ==
  IF s = << >> THEN << x >>
  ELSE IF x <= Head(s) THEN << x >> \o s
  ELSE << Head(s) >> \o InsertSorted(x, Tail(s))

\* SortAscending with the sort() call left out.
SortAscendingOmitted(s) == s

\* Vec::sort() on usize: ascending order.
RECURSIVE SortAscending(_)
SortAscending(s) == IF s = << >> THEN << >> ELSE InsertSorted(Head(s), SortAscending(Tail(s)))

\* One iteration order per set of a sequence of sets: the possible results of
\* calling HashSet::iter() once on each of them.
RECURSIVE IterSeqs(_)
IterSeqs(sets) ==
  IF sets = << >> THEN { << >> }
  ELSE { << o >> \o rest : o \in Orderings(Head(sets)), rest \in IterSeqs(Tail(sets)) }

\* ------------------------------------------------------------ FilterResult
\* FilterResult::Single { dimension, indices }
Single(d, indices) == [kind |-> "Single", dimension |-> d, indices |-> indices]
\* FilterResult::Pairs { lat_dimension, lon_dimension, pairs }
Pairs(a, b, pairs) ==
  [kind |-> "Pairs", lat_dimension |-> a, lon_dimension |-> b, pairs |-> pairs]
\* FilterResult::Triplets { time_dimension, lat_dimension, lon_dimension, triplets }
Triplets(t, a, b, triplets) ==
  [kind |-> "Triplets", time_dimension |-> t, lat_dimension |-> a,
   lon_dimension |-> b, triplets |-> triplets]

\* -------------------------------------------------------------- the state
VARIABLES
  var_name,               \* name of the target variable (the value column's name)
  dimension_order,        \* DimensionIndexManager.dimension_order
  dimension_indices,      \* DimensionIndexManager.dimension_indices
  explicit_combinations,  \* DimensionIndexManager.explicit_combinations (Option)
  result,                 \* argument of the latest apply_filter_result call (Option)
  folded,                 \* the results folded successfully so far, in order
  filters,                \* the filters of the job applied so far, in order
  err,                    \* the Err returned, if any (Option)
  combinations,           \* what get_all_coordinate_combinations returned (Option)
  reads,                  \* the index tuples read from the target field, in order
  rows,                   \* the rows of the extracted table (Option)
  columns,                \* the columns of the extracted DataFrame (Option)
  pc                      \* "folding", "failed", "enumerated", "extracted",
                          \* "postprocessed", "written"

vars == << var_name, dimension_order, dimension_indices, explicit_combinations, result,
           folded, filters, err, combinations, reads, rows, columns, pc >>

\* ------------------------------------------------ DimensionIndexManager::new
\* NewDimensionIndices seeding (1..dim_size) instead of (0..dim_size).
NewDimensionIndicesFromOne(order) ==
  [ d \in SeqToSet(order) |-> 1 .. (DimSize(d) - 1) ]

\* The candidate sets new() seeds: (0..dim_size) for every dimension of var.
NewDimensionIndices(order) ==
  [ d \in SeqToSet(order) |-> IndexRange(DimSize(d)) ]

\* The state after DimensionIndexManager::new(var) for the target variable v.
InitFor(v) ==
  /\ var_name = v.name
  /\ dimension_order = v.dims
  /\ dimension_indices = NewDimensionIndices(v.dims)
  /\ explicit_combinations = None
  /\ result = None
  /\ folded = << >>
  /\ filters = << >>
  /\ err = None
  /\ combinations = None
  /\ reads = << >>
  /\ rows = None
  /\ columns = None
  /\ pc = "folding"

Init == \E v \in Targets : InitFor(v)

\* ------------------------------------- DimensionIndexManager: Single results
\* IntersectIndices with union() in place of intersection().
IntersectIndicesUnion(current_indices, indices) ==
  current_indices \cup SeqToSet(indices)

\* IntersectIndices assigning the new index set instead of intersecting.
IntersectIndicesOverwrite(current_indices, indices) ==
  SeqToSet(indices)

\* current_indices.intersection(&new_indices), new_indices the HashSet of the
\* result's index vector.
IntersectIndices(current_indices, indices) ==
  current_indices \cap SeqToSet(indices)

\* ----------------------------- DimensionIndexManager: the explicit override
\* SetExplicit keeping, once an override exists, only the new combinations
\* the earlier override also holds.
SetExplicitIntersected(current, combinations_built) ==
  IF IsSome(current)
  THEN Some(SelectSeq(combinations_built, LAMBDA c : c \in SeqToSet(Unwrap(current))))
  ELSE Some(combinations_built)

\* self.explicit_combinations = Some(combinations): the value assigned, given
\* the override held before (which the assignment drops).
SetExplicit(current, combinations_built) == Some(combinations_built)

\* ------------------------------------------ DimensionIndexManager: Pairs
\* The coordinate pushed for one pair: vec![0; n], then the other dimensions'
\* values, then coord[lat_pos] and coord[lon_pos], in this order.
PairCoord(n, other_dims, current, lat_pos, lon_pos, pair) ==
  LET zero == [p \in 1 .. n |-> 0]
      withOthers ==
        [p \in 1 .. n |->
           IF \E i \in 1 .. Len(current) : other_dims[i][1] = p
           THEN current[CHOOSE i \in 1 .. Len(current) :
                          /\ other_dims[i][1] = p
                          /\ \A j \in (i + 1) .. Len(current) : other_dims[j][1] # p]
           ELSE zero[p]]
      withLat == [withOthers EXCEPT ![lat_pos] = pair[1]]
  IN  [withLat EXCEPT ![lon_pos] = pair[2]]

\* generate_combinations_with_pairs: depth-first over the other dimensions,
\* in the order their index vectors were collected, then one coordinate per
\* pair in the order of the pairs.
RECURSIVE GenerateCombinationsWithPairs(_, _, _, _, _, _, _)
GenerateCombinationsWithPairs(n, other_dims, pairs, lat_pos, lon_pos, current, other_dim_idx) ==
  IF other_dim_idx > Len(other_dims)
  THEN [k \in 1 .. Len(pairs) |->
          PairCoord(n, other_dims, current, lat_pos, lon_pos, pairs[k])]
  ELSE LET indices == other_dims[other_dim_idx][2]
       IN  Flatten([k \in 1 .. Len(indices) |->
                      GenerateCombinationsWithPairs(n, other_dims, pairs, lat_pos, lon_pos,
                                                    Append(current, indices[k]),
                                                    other_dim_idx + 1)])

\* The positions of dimension_order other than lat_pos and lon_pos, ascending.
OtherPositions(order, lat_pos, lon_pos) ==
  SelectSeq([p \in 1 .. Len(order) |-> p], LAMBDA p : p # lat_pos /\ p # lon_pos)

\* OtherDimensionsChoices reading every index of the other dimensions instead
\* of their current candidate sets.
OtherDimensionsChoicesAllIndices(order, indicesMap, lat_pos, lon_pos) ==
  LET ps == OtherPositions(order, lat_pos, lon_pos)
      sets == [k \in 1 .. Len(ps) |-> IndexRange(DimSize(order[ps[k]]))]
  IN  { [k \in 1 .. Len(ps) |-> << ps[k], its[k] >>] : its \in IterSeqs(sets) }

\* The values other_dimensions may take in apply_explicit_pairs: for each other
\* position its candidate set collected in HashSet iteration order (not sorted).
OtherDimensionsChoices(order, indicesMap, lat_pos, lon_pos) ==
  LET ps == OtherPositions(order, lat_pos, lon_pos)
      sets == [k \in 1 .. Len(ps) |-> indicesMap[order[ps[k]]]]
  IN  { [k \in 1 .. Len(ps) |-> << ps[k], its[k] >>] : its \in IterSeqs(sets) }

\* --------------------------------------- DimensionIndexManager: Triplets
\* The coordinate pushed for one triplet: vec![0; n] with the three positions
\* assigned in the order time, lat, lon.
TripletCoord(n, time_pos, lat_pos, lon_pos, triplet) ==
  LET zero == [p \in 1 .. n |-> 0]
      withTime == [zero EXCEPT ![time_pos] = triplet[1]]
      withLat == [withTime EXCEPT ![lat_pos] = triplet[2]]
  IN  [withLat EXCEPT ![lon_pos] = triplet[3]]

\* The combinations apply_explicit_triplets builds: one per triplet, in order.
TripletCombinations(n, time_pos, lat_pos, lon_pos, triplets) ==
  [k \in 1 .. Len(triplets) |-> TripletCoord(n, time_pos, lat_pos, lon_pos, triplets[k])]

\* ------------------------------------------------------- apply_filter_result
\* Failed with the error recorded and the caller carrying on.
FailedContinues(r, e) ==
  /\ result' = Some(r)
  /\ err' = Some(e)
  /\ pc' = "folding"
  /\ UNCHANGED << var_name, dimension_order, folded, combinations, reads, rows, columns >>

\* apply_filter_result returned Err(e): the `?` and `return Err` paths.
Failed(r, e) ==
  /\ result' = Some(r)
  /\ err' = Some(e)
  /\ pc' = "failed"
  /\ UNCHANGED << var_name, dimension_order, folded, combinations, reads, rows, columns >>

\* apply_filter_result returned Ok(()).
Folded(r) ==
  /\ result' = Some(r)
  /\ folded' = Append(folded, r)
  /\ UNCHANGED << var_name, dimension_order, err, combinations, reads, rows, columns, pc >>

\* ApplySingle dropping the explicit override when it narrows a candidate set.
ApplySingleClearsOverride(r) ==
  IF r.dimension \in DOMAIN dimension_indices
  THEN /\ dimension_indices' =
            [dimension_indices EXCEPT
               ![r.dimension] = IntersectIndices(@, r.indices)]
       /\ explicit_combinations' = None
       /\ Folded(r)
  ELSE /\ UNCHANGED << dimension_indices, explicit_combinations >>
       /\ Failed(r, << "Unknown dimension: ", r.dimension >>)

\* The FilterResult::Single arm.
ApplySingle(r) ==
  IF r.dimension \in DOMAIN dimension_indices
  THEN /\ dimension_indices' =
            [dimension_indices EXCEPT
               ![r.dimension] = IntersectIndices(@, r.indices)]
       /\ UNCHANGED explicit_combinations
       /\ Folded(r)
  ELSE /\ UNCHANGED << dimension_indices, explicit_combinations >>
       /\ Failed(r, << "Unknown dimension: ", r.dimension >>)

\* ApplyExplicitPairs storing an empty override before it looks the second
\* dimension up.
ApplyExplicitPairsStoresFirst(r) ==
  LET lat_pos == Position(dimension_order, r.lat_dimension)
      lon_pos == Position(dimension_order, r.lon_dimension)
  IN  IF lat_pos = 0
      THEN /\ UNCHANGED << dimension_indices, explicit_combinations >>
           /\ Failed(r, << "Dimension ", r.lat_dimension, " not found" >>)
      ELSE IF lon_pos = 0
      THEN /\ explicit_combinations' = Some(<< >>)
           /\ UNCHANGED dimension_indices
           /\ Failed(r, << "Dimension ", r.lon_dimension, " not found" >>)
      ELSE /\ \E other_dimensions \in
                   OtherDimensionsChoices(dimension_order, dimension_indices, lat_pos, lon_pos) :
                explicit_combinations' =
                  SetExplicit(explicit_combinations,
                              GenerateCombinationsWithPairs(Len(dimension_order),
                                                            other_dimensions, r.pairs,
                                                            lat_pos, lon_pos, << >>, 1))
           /\ UNCHANGED dimension_indices
           /\ Folded(r)

\* apply_explicit_pairs
ApplyExplicitPairs(r) ==
  LET lat_pos == Position(dimension_order, r.lat_dimension)
      lon_pos == Position(dimension_order, r.lon_dimension)
  IN  IF lat_pos = 0
      THEN /\ UNCHANGED << dimension_indices, explicit_combinations >>
           /\ Failed(r, << "Dimension ", r.lat_dimension, " not found" >>)
      ELSE IF lon_pos = 0
      THEN /\ UNCHANGED << dimension_indices, explicit_combinations >>
           /\ Failed(r, << "Dimension ", r.lon_dimension, " not found" >>)
      ELSE /\ \E other_dimensions \in
                   OtherDimensionsChoices(dimension_order, dimension_indices, lat_pos, lon_pos) :
                explicit_combinations' =
                  SetExplicit(explicit_combinations,
                              GenerateCombinationsWithPairs(Len(dimension_order),
                                                            other_dimensions, r.pairs,
                                                            lat_pos, lon_pos, << >>, 1))
           /\ UNCHANGED dimension_indices
           /\ Folded(r)

\* apply_explicit_triplets
ApplyExplicitTriplets(r) ==
  LET time_pos == Position(dimension_order, r.time_dimension)
      lat_pos == Position(dimension_order, r.lat_dimension)
      lon_pos == Position(dimension_order, r.lon_dimension)
  IN  IF time_pos = 0
      THEN /\ UNCHANGED << dimension_indices, explicit_combinations >>
           /\ Failed(r, << "Dimension ", r.time_dimension, " not found" >>)
      ELSE IF lat_pos = 0
      THEN /\ UNCHANGED << dimension_indices, explicit_combinations >>
           /\ Failed(r, << "Dimension ", r.lat_dimension, " not found" >>)
      ELSE IF lon_pos = 0
      THEN /\ UNCHANGED << dimension_indices, explicit_combinations >>
           /\ Failed(r, << "Dimension ", r.lon_dimension, " not found" >>)
      ELSE /\ explicit_combinations' =
                SetExplicit(explicit_combinations,
                            TripletCombinations(Len(dimension_order), time_pos, lat_pos,
                                                lon_pos, r.triplets))
           /\ UNCHANGED dimension_indices
           /\ Folded(r)

\* DimensionIndexManager::apply_filter_result(result)
ApplyFilterResult(r) ==
  IF r.kind = "Single" THEN ApplySingle(r)
  ELSE IF r.kind = "Pairs" THEN ApplyExplicitPairs(r)
  ELSE ApplyExplicitTriplets(r)

\* ------------------------------------------- get_all_coordinate_combinations
\* GenerateCombinations stopping one dimension early (dim_index + 1 >= len).
RECURSIVE GenerateCombinationsShort(_, _, _, _)
GenerateCombinationsShort(order, iters, current, dim_index) ==
  IF dim_index >= Len(order)
  THEN << current >>
  ELSE LET sorted_indices == SortAscending(iters[dim_index])
       IN  Flatten([k \in 1 .. Len(sorted_indices) |->
                      GenerateCombinationsShort(order, iters,
                                                Append(current, sorted_indices[k]),
                                                dim_index + 1)])

\* generate_combinations: depth-first over dimension_order; iters[k] is the
\* order in which the candidate set of the k-th dimension is collected, and
\* the collected vector is sorted before it is walked.
RECURSIVE GenerateCombinations(_, _, _, _)
GenerateCombinations(order, iters, current, dim_index) ==
  IF dim_index > Len(order)
  THEN << current >>
  ELSE LET sorted_indices == SortAscending(iters[dim_index])
       IN  Flatten([k \in 1 .. Len(sorted_indices) |->
                      GenerateCombinations(order, iters,
                                           Append(current, sorted_indices[k]),
                                           dim_index + 1)])

\* GetAllCoordinateCombinations always generating the cartesian product.
GetAllCoordinateCombinationsGenerated(explicit, order, iters) ==
  GenerateCombinations(order, iters, << >>, 1)

\* GetAllCoordinateCombinations treating an explicit list without entries as
\* no list.
GetAllCoordinateCombinationsEmptyFallsBack(explicit, order, iters) ==
  IF IsSome(explicit) /\ Len(Unwrap(explicit)) > 0 THEN Unwrap(explicit)
  ELSE GenerateCombinations(order, iters, << >>, 1)

\* get_all_coordinate_combinations: the explicit list when there is one,
\* otherwise the generated cartesian product.
GetAllCoordinateCombinations(explicit, order, iters) ==
  IF IsSome(explicit) THEN Unwrap(explicit)
  ELSE GenerateCombinations(order, iters, << >>, 1)

\* The iteration orders of the candidate sets, one per entry of dimension_order.
CandidateIterations(order, indicesMap) ==
  IterSeqs([k \in 1 .. Len(order) |-> indicesMap[order[k]]])

\* ------------------------------------------------ the manager driven directly
\* Index vectors a Single result may carry (duplicates and any order allowed).
IndexLists == SeqsUpTo(IndexRange(DimLen), MaxEntries)
\* Pair lists a Pairs result may carry.
PairLists == SeqsUpTo(IndexRange(DimLen) \X IndexRange(DimLen), MaxEntries)
\* Triplet lists a Triplets result may carry.
TripletLists ==
  SeqsUpTo(IndexRange(DimLen) \X IndexRange(DimLen) \X IndexRange(DimLen), MaxEntries)

\* The dimension names a Pairs result is anchored to.
PairDims == { << "lat", "lon" >>, << "lon", "lat" >>, << "lat", "lat" >> }
\* The dimension names a Triplets result is anchored to.
TripletDims == { << "time", "lat", "lon" >> }

SingleResults == { Single(d, s) : d \in DimNames, s \in IndexLists }
PairsResults == { Pairs(ds[1], ds[2], ps) : ds \in PairDims, ps \in PairLists }
TripletsResults ==
  { Triplets(ds[1], ds[2], ds[3], ts) : ds \in TripletDims, ts \in TripletLists }

\* A caller folds a Single result into the manager.
FoldSingle ==
  /\ pc = "folding"
  /\ Len(folded) < MaxFilters
  /\ \E r \in SingleResults : ApplyFilterResult(r)
  /\ UNCHANGED filters

\* A caller folds a Pairs result into the manager.
FoldPairs ==
  /\ pc = "folding"
  /\ Len(folded) < MaxFilters
  /\ \E r \in PairsResults : ApplyFilterResult(r)
  /\ UNCHANGED filters

\* A caller folds a Triplets result into the manager.
FoldTriplets ==
  /\ pc = "folding"
  /\ Len(folded) < MaxFilters
  /\ \E r \in TripletsResults : ApplyFilterResult(r)
  /\ UNCHANGED filters

\* A caller asks the manager for its coordinate combinations.
Enumerate ==
  /\ pc = "folding"
  /\ \E iters \in CandidateIterations(dimension_order, dimension_indices) :
       combinations' =
         Some(GetAllCoordinateCombinations(explicit_combinations, dimension_order, iters))
  /\ pc' = "enumerated"
  /\ UNCHANGED << var_name, dimension_order, dimension_indices, explicit_combinations,
                  result, folded, filters, err, reads, rows, columns >>

Next == FoldSingle \/ FoldPairs \/ FoldTriplets \/ Enumerate

Spec == Init /\ [][Next]_vars

\* A variable one dimension of which is an unlimited dimension without
\* records: dim.len() is 0 and its candidate set starts empty.
EmptyDimensionTarget ==
  [name |-> "temperature", dims |-> << "time", "record", "lat", "lon" >>]

InitEmptyDimension == InitFor(EmptyDimensionTarget)

SpecEmptyDimension == InitEmptyDimension /\ [][Next]_vars

\* ------------------------------------------------------------ the data file
\* The variables of the file that file.variable(name) finds and reads as a
\* vector of f64: coordinate variables for time, lat and lon.  The dimension
\* level has no variable of its own (as in pres_temp_4D.nc).
FileVariables == {"time", "lat", "lon"}

\* The coordinate vector stored for dimension d: 10, 20, ... (one per index).
CoordValues(d) == [k \in 1 .. DimSize(d) |-> 10 * k]

\* The scalar of the target field stored at an index tuple: its row-major
\* offset, so that every cell of the field holds a different value.
RECURSIVE FieldValue(_, _)
FieldValue(order, indices) ==
  IF indices = << >> THEN 0
  ELSE LET n == Len(indices)
       IN  FieldValue(SubSeq(order, 1, n - 1), SubSeq(indices, 1, n - 1)) * DimSize(order[n])
           + indices[n]

Abs(x) == IF x < 0 THEN -x ELSE x

\* ------------------------------------------------------------------ filters
\* NCRangeFilter { dimension_name, min_value, max_value }
NCRangeFilter(d, lo, hi) ==
  [kind |-> "range", dimension_name |-> d, min_value |-> lo, max_value |-> hi]
\* NCListFilter { dimension_name, values }
NCListFilter(d, values) ==
  [kind |-> "list", dimension_name |-> d, values |-> values]
\* NC2DPointFilter { lat_dimension_name, lon_dimension_name, points, tolerance }
NC2DPointFilter(a, b, points, tolerance) ==
  [kind |-> "2d_point", lat_dimension_name |-> a, lon_dimension_name |-> b,
   points |-> points, tolerance |-> tolerance]

\* NC3DPointFilter { time_dimension_name, lat_dimension_name,
\*                   lon_dimension_name, steps, points, tolerance }
NC3DPointFilter(t, a, b, steps, points, tolerance) ==
  [kind |-> "3d_point", time_dimension_name |-> t, lat_dimension_name |-> a,
   lon_dimension_name |-> b, steps |-> steps, points |-> points,
   tolerance |-> tolerance]

Ok(v) == [ok |-> TRUE, value |-> v]
Err(e) == [ok |-> FALSE, err |-> e]

\* RangeIndices with both comparisons strict.
RangeIndicesExclusive(values, lo, hi) ==
  LET hits == SelectSeq([k \in 1 .. Len(values) |-> k],
                        LAMBDA k : values[k] > lo /\ values[k] < hi)
  IN  [k \in 1 .. Len(hits) |-> hits[k] - 1]

\* The indices (0-based, ascending) of the coordinates within [lo, hi]:
\* values.iter().enumerate().filter(|(_, val)| **val >= min && **val <= max)
\*       .map(|(idx, _)| idx).collect()
RangeIndices(values, lo, hi) ==
  LET hits == SelectSeq([k \in 1 .. Len(values) |-> k],
                        LAMBDA k : values[k] >= lo /\ values[k] <= hi)
  IN  [k \in 1 .. Len(hits) |-> hits[k] - 1]

\* ListIndices accepting every coordinate within 5 of a listed value.
ListIndicesNearby(coord_values, values) ==
  LET hits == SelectSeq([k \in 1 .. Len(coord_values) |-> k],
                        LAMBDA k : \E j \in 1 .. Len(values) :
                                     Abs(coord_values[k] - values[j]) <= 5)
  IN  [k \in 1 .. Len(hits) |-> hits[k] - 1]

\* The indices (0-based, ascending) of the coordinates the list holds:
\* coord_values.iter().enumerate().filter(|(_, val)| self.values.contains(val))
\*             .map(|(idx, _)| idx).collect()
ListIndices(coord_values, values) ==
  LET hits == SelectSeq([k \in 1 .. Len(coord_values) |-> k],
                        LAMBDA k : \E j \in 1 .. Len(values) : values[j] = coord_values[k])
  IN  [k \in 1 .. Len(hits) |-> hits[k] - 1]

\* ToleranceIndices with the comparison strict.
ToleranceIndicesStrict(values, target, tolerance) ==
  LET hits == SelectSeq([k \in 1 .. Len(values) |-> k],
                        LAMBDA k : Abs(values[k] - target) < tolerance)
  IN  [k \in 1 .. Len(hits) |-> hits[k] - 1]

\* The indices (0-based, ascending) of the coordinates within tolerance of
\* target: the positions at which (value - target).abs() <= tolerance.
ToleranceIndices(values, target, tolerance) ==
  LET hits == SelectSeq([k \in 1 .. Len(values) |-> k],
                        LAMBDA k : Abs(values[k] - target) <= tolerance)
  IN  [k \in 1 .. Len(hits) |-> hits[k] - 1]

\* NCRangeFilter::apply
NCRangeFilterApply(f) ==
  IF f.dimension_name \in FileVariables
  THEN Ok(Single(f.dimension_name,
                 RangeIndices(CoordValues(f.dimension_name), f.min_value, f.max_value)))
  ELSE Err(<< "Dimension variable '", f.dimension_name, "' not found" >>)

\* NCListFilter::apply
NCListFilterApply(f) ==
  IF f.dimension_name \in FileVariables
  THEN Ok(Single(f.dimension_name,
                 ListIndices(CoordValues(f.dimension_name), f.values)))
  ELSE Err(<< "Dimension variable '", f.dimension_name, "' not found" >>)

\* The pairs NC2DPointFilter::apply pushes: for every point, every latitude
\* index within tolerance, every longitude index within tolerance, in loop order.
MatchPairs(lat_values, lon_values, points, tolerance) ==
  Flatten([p \in 1 .. Len(points) |->
    LET is == ToleranceIndices(lat_values, points[p][1], tolerance)
        js == ToleranceIndices(lon_values, points[p][2], tolerance)
    IN  Flatten([i \in 1 .. Len(is) |-> [j \in 1 .. Len(js) |-> << is[i], js[j] >>]])])

\* NC2DPointFilterApply without the lookup of the longitude variable.
NC2DPointFilterApplyLatitudeOnly(f) ==
  IF f.lat_dimension_name \notin FileVariables
  THEN Err(<< "Latitude variable '", f.lat_dimension_name, "' not found" >>)
  ELSE Ok(Pairs(f.lat_dimension_name, f.lon_dimension_name,
                MatchPairs(CoordValues(f.lat_dimension_name),
                           CoordValues(f.lon_dimension_name), f.points, f.tolerance)))

\* NC2DPointFilter::apply
NC2DPointFilterApply(f) ==
  IF f.lat_dimension_name \notin FileVariables
  THEN Err(<< "Latitude variable '", f.lat_dimension_name, "' not found" >>)
  ELSE IF f.lon_dimension_name \notin FileVariables
  THEN Err(<< "Longitude variable '", f.lon_dimension_name, "' not found" >>)
  ELSE Ok(Pairs(f.lat_dimension_name, f.lon_dimension_name,
                MatchPairs(CoordValues(f.lat_dimension_name),
                           CoordValues(f.lon_dimension_name), f.points, f.tolerance)))

\* MatchTriplets pushing, for every matched cell, the first matched time
\* index only.
MatchTripletsFirstStep(time_values, lat_values, lon_values, steps, points, tolerance) ==
  LET ts == ListIndices(time_values, steps)
  IN  Flatten([p \in 1 .. Len(points) |->
        LET is == ToleranceIndices(lat_values, points[p][1], tolerance)
            js == ToleranceIndices(lon_values, points[p][2], tolerance)
        IN  Flatten([i \in 1 .. Len(is) |->
              Flatten([j \in 1 .. Len(js) |->
                [t \in 1 .. (IF Len(ts) > 0 THEN 1 ELSE 0) |-> << ts[t], is[i], js[j] >>]])])])

\* The triplets NC3DPointFilter::apply pushes: filtered_time_indices are the
\* time indices whose coordinate the steps contain (the expression of
\* NCListFilter::apply); then for every point, every latitude index within
\* tolerance, every longitude index within tolerance and every filtered time
\* index, in loop order.
MatchTriplets(time_values, lat_values, lon_values, steps, points, tolerance) ==
  LET ts == ListIndices(time_values, steps)
  IN  Flatten([p \in 1 .. Len(points) |->
        LET is == ToleranceIndices(lat_values, points[p][1], tolerance)
            js == ToleranceIndices(lon_values, points[p][2], tolerance)
        IN  Flatten([i \in 1 .. Len(is) |->
              Flatten([j \in 1 .. Len(js) |->
                [t \in 1 .. Len(ts) |-> << ts[t], is[i], js[j] >>]])])])

\* NC3DPointFilter::apply
NC3DPointFilterApply(f) ==
  IF f.time_dimension_name \notin FileVariables
  THEN Err(<< "Time variable '", f.time_dimension_name, "' not found" >>)
  ELSE IF f.lat_dimension_name \notin FileVariables
  THEN Err(<< "Latitude variable '", f.lat_dimension_name, "' not found" >>)
  ELSE IF f.lon_dimension_name \notin FileVariables
  THEN Err(<< "Longitude variable '", f.lon_dimension_name, "' not found" >>)
  ELSE Ok(Triplets(f.time_dimension_name, f.lat_dimension_name, f.lon_dimension_name,
                   MatchTriplets(CoordValues(f.time_dimension_name),
                                 CoordValues(f.lat_dimension_name),
                                 CoordValues(f.lon_dimension_name),
                                 f.steps, f.points, f.tolerance)))

\* NCFilter::apply, dispatched on the filter's type.
FilterApply(f) ==
  IF f.kind = "range" THEN NCRangeFilterApply(f)
  ELSE IF f.kind = "list" THEN NCListFilterApply(f)
  ELSE IF f.kind = "2d_point" THEN NC2DPointFilterApply(f)
  ELSE NC3DPointFilterApply(f)

\* ------------------------------------------------------------ the extractor
\* get_coordinate_variables: the dimensions of dimension_order that have a
\* same-named variable in the file, with its values.
GetCoordinateVariables(order) ==
  [ d \in SeqToSet(order) \cap FileVariables |-> CoordValues(d) ]

\* CoordValue always pushing the raw index.
CoordValueRawIndex(coordinate_vars, dim_name, idx) == idx

\* The display coordinate of index idx along dim_name:
\* coordinate_vars.get(dim_name).map(|coords| coords[idx]).unwrap_or(idx as f64)
CoordValue(coordinate_vars, dim_name, idx) ==
  IF dim_name \in DOMAIN coordinate_vars THEN coordinate_vars[dim_name][idx + 1] ELSE idx

\* extract_variable_value accepts 1 to 4 indices.
SupportedRank(indices) == Len(indices) \in 1 .. 4

\* One output row: the display coordinates in dimension_order and the value.
Row(order, coordinate_vars, combination) ==
  [coords |-> [p \in 1 .. Len(order) |-> CoordValue(coordinate_vars, order[p], combination[p])],
   value |-> FieldValue(order, combination)]

\* The index tuples extract_variable_value reads before the loop over the
\* combinations ends: all of them, or those before the first one whose
\* number of indices it does not support.
ReadsOf(combos) ==
  LET bad == { k \in 1 .. Len(combos) : ~SupportedRank(combos[k]) }
  IN  IF bad = {} THEN combos
      ELSE SubSeq(combos, 1, (CHOOSE k \in bad : \A j \in bad : k <= j) - 1)

\* ExtractRows keeping one row per distinct combination.
ExtractRowsDistinct(order, coordinate_vars, combos) ==
  LET firsts == SelectSeq([k \in 1 .. Len(combos) |-> k],
                          LAMBDA k : \A j \in 1 .. (k - 1) : combos[j] # combos[k])
  IN  [k \in 1 .. Len(firsts) |-> Row(order, coordinate_vars, combos[firsts[k]])]

\* The rows the loop over the combinations pushes, one per combination.
ExtractRows(order, coordinate_vars, combos) ==
  [k \in 1 .. Len(combos) |-> Row(order, coordinate_vars, combos[k])]

\* Columns with the value column pushed first.
ColumnsValueFirst(order, name, rws) ==
  [p \in 1 .. (Len(order) + 1) |->
     IF p = 1
     THEN [name |-> name, values |-> [k \in 1 .. Len(rws) |-> rws[k].value]]
     ELSE [name |-> order[p - 1], values |-> [k \in 1 .. Len(rws) |-> rws[k].coords[p - 1]]]]

\* The Series pushed to `columns`: one per dimension, in dimension_order, and
\* then the variable's values under var_name.
Columns(order, name, rws) ==
  [p \in 1 .. (Len(order) + 1) |->
     IF p <= Len(order)
     THEN [name |-> order[p], values |-> [k \in 1 .. Len(rws) |-> rws[k].coords[p]]]
     ELSE [name |-> name, values |-> [k \in 1 .. Len(rws) |-> rws[k].value]]]

\* DataFrame::new(columns): polars refuses columns of unequal lengths and two
\* columns of the same name.
DataFrameNew(cols) ==
  IF \E p, q \in 1 .. Len(cols) : p < q /\ cols[p].name = cols[q].name
  THEN Err(<< "duplicate column name" >>)
  ELSE IF \E p, q \in 1 .. Len(cols) : Len(cols[p].values) # Len(cols[q].values)
  THEN Err(<< "columns of unequal length" >>)
  ELSE Ok(cols)

\* ------------------------------------------------ extract_data_to_dataframe
\* Variables whose rank extract_variable_value does not support: a scalar
\* and a field of five dimensions.
UnsupportedTargets ==
  { [name |-> "temperature", dims |-> << >>],
    [name |-> "temperature", dims |-> << "member", "time", "level", "lat", "lon" >>] }

\* The job starts on any variable of the file.
InitJob == \E v \in Targets \cup UnsupportedTargets : InitFor(v)

\* Configurations of the job's filters.
RangeBounds == {10, 10 * DimLen, 10 * DimLen + 5, 10 * DimLen + 15}
FilterDimNames == DimNames
RangeFilters ==
  { NCRangeFilter(d, lo, hi) : d \in FilterDimNames, lo \in RangeBounds, hi \in RangeBounds }
ListValues == {10, 15, 10 * DimLen}
ListFilters ==
  { NCListFilter(d, vs) : d \in FilterDimNames, vs \in SeqsUpTo(ListValues, MaxEntries) }
PointValues == {10, 20}
Tolerances == {1, 10}
Point2DFilters ==
  { NC2DPointFilter("lat", "lon", ps, tol) :
      ps \in SeqsUpTo(PointValues \X PointValues, MaxEntries), tol \in Tolerances }

\* One turn of the loop over the filters: filter.apply(&file)? and then
\* dim_manager.apply_filter_result(&result)?
FilterStep(f) ==
  /\ pc = "folding"
  /\ Len(filters) < MaxFilters
  /\ filters' = Append(filters, f)
  /\ \E applied \in {FilterApply(f)} :
         IF applied.ok
         THEN ApplyFilterResult(applied.value)
         ELSE /\ err' = Some(applied.err)
              /\ pc' = "failed"
              /\ UNCHANGED << var_name, dimension_order, dimension_indices,
                              explicit_combinations, result, folded, combinations,
                              reads, rows, columns >>

\* The job's next filter is a Range filter.
RangeFilterStep == \E f \in RangeFilters : FilterStep(f)

\* The job's next filter is a List filter.
ListFilterStep == \E f \in ListFilters : FilterStep(f)

\* The job's next filter is a Point2D filter.
Point2DFilterStep == \E f \in Point2DFilters : FilterStep(f)

\* extract_data_with_dimension_manager, entered when the loop is over.
Extract ==
  /\ pc = "folding"
  /\ \E coordinate_vars \in {GetCoordinateVariables(dimension_order)} :
       \E combos \in { GetAllCoordinateCombinations(explicit_combinations,
                                                    dimension_order, iters) :
                         iters \in CandidateIterations(dimension_order, dimension_indices) } :
           /\ combinations' = Some(combos)
           /\ reads' = ReadsOf(combos)
           /\ IF \A k \in 1 .. Len(combos) : SupportedRank(combos[k])
              THEN \E rws \in {ExtractRows(dimension_order, coordinate_vars, combos)} :
                     \E df \in {DataFrameNew(Columns(dimension_order, var_name, rws))} :
                       IF df.ok
                       THEN /\ rows' = Some(rws)
                            /\ columns' = Some(df.value)
                            /\ pc' = "extracted"
                            /\ UNCHANGED err
                       ELSE /\ rows' = None
                            /\ columns' = None
                            /\ pc' = "failed"
                            /\ err' = Some(df.err)
              ELSE /\ rows' = None
                   /\ columns' = None
                   /\ pc' = "failed"
                   /\ err' = Some(<< "Unsupported number of dimensions: ",
                                     Len(dimension_order) >>)
  /\ UNCHANGED << var_name, dimension_order, dimension_indices, explicit_combinations,
                  result, folded, filters >>

\* ------------------------------------------------------- process_netcdf_job
\* The configured post-processing pipeline runs on the extracted table and
\* returns Ok or Err (the table it returns is not modelled: rows and columns
\* keep the extraction's).
Postprocess ==
  /\ pc = "extracted"
  /\ \E ok \in BOOLEAN :
       IF ok THEN pc' = "postprocessed" /\ UNCHANGED err
       ELSE pc' = "failed" /\ err' = Some(<< "postprocessing failed" >>)
  /\ UNCHANGED << var_name, dimension_order, dimension_indices, explicit_combinations,
                  result, folded, filters, combinations, reads, rows, columns >>

\* write_dataframe_to_parquet, called on the table extraction returned or on
\* the one post-processing returned; it returns Ok or Err.
WriteParquet ==
  /\ pc \in {"extracted", "postprocessed"}
  /\ \E ok \in BOOLEAN :
       IF ok THEN pc' = "written" /\ UNCHANGED err
       ELSE pc' = "failed" /\ err' = Some(<< "writing failed" >>)
  /\ UNCHANGED << var_name, dimension_order, dimension_indices, explicit_combinations,
                  result, folded, filters, combinations, reads, rows, columns >>

\* extract_data_to_dataframe on its own.
NextJob == RangeFilterStep \/ ListFilterStep \/ Point2DFilterStep \/ Extract

SpecJob == InitJob /\ [][NextJob]_vars

\* process_netcdf_job: the extraction, then post-processing and the output.
NextProcess == NextJob \/ Postprocess \/ WriteParquet

SpecProcess == InitJob /\ [][NextProcess]_vars

\* ------------------------------------------------- jobs of a single filter
\* The dimension names a Point2D filter is configured with: the coordinate
\* dimensions, and level (which has no variable) in either place.
Point2DDims == { << "lat", "lon" >>, << "level", "lon" >>, << "lat", "level" >> }
\* The dimension names a Point3D filter is configured with.
Point3DDims ==
  { << "time", "lat", "lon" >>, << "level", "lat", "lon" >>,
    << "time", "level", "lon" >>, << "time", "lat", "level" >> }
StepValues == {10, 15, 10 * DimLen}
AnyPoint2DFilters ==
  { NC2DPointFilter(ds[1], ds[2], ps, tol) :
      ds \in Point2DDims,
      ps \in SeqsUpTo(PointValues \X PointValues, MaxEntries), tol \in Tolerances }
Point3DFilters ==
  { NC3DPointFilter(ds[1], ds[2], ds[3], steps, ps, tol) :
      ds \in Point3DDims, steps \in SeqsUpTo(StepValues, MaxEntries),
      ps \in SeqsUpTo(PointValues \X PointValues, MaxEntries), tol \in Tolerances }

\* The only filter of the job is a Range filter.
SingleRangeJob == filters = << >> /\ \E f \in RangeFilters : FilterStep(f)

\* The only filter of the job is a List filter.
SingleListJob == filters = << >> /\ \E f \in ListFilters : FilterStep(f)

\* The only filter of the job is a Point2D filter.
SinglePoint2DJob == filters = << >> /\ \E f \in AnyPoint2DFilters : FilterStep(f)

\* The only filter of the job is a Point3D filter.
SinglePoint3DJob == filters = << >> /\ \E f \in Point3DFilters : FilterStep(f)

NextOneFilter ==
  \/ SingleRangeJob
  \/ SingleListJob
  \/ SinglePoint2DJob
  \/ SinglePoint3DJob
  \/ Extract

SpecOneFilter == InitJob /\ [][NextOneFilter]_vars

\* ------------------------------------------------- the configuration layer
\* RangeParams { dimension_name, min_value, max_value } of a job configuration.
RangeConfigs ==
  { [dimension_name |-> d, min_value |-> lo, max_value |-> hi] :
      d \in FilterDimNames, lo \in RangeBounds, hi \in RangeBounds }

\* The parts of a --range argument split at ':' (numbers already parsed):
\* dimension:min:max, or an argument that lacks a part.
RangeArgs ==
  { << d, lo, hi >> : d \in FilterDimNames, lo \in RangeBounds, hi \in RangeBounds }
    \cup { << d, lo >> : d \in FilterDimNames, lo \in RangeBounds }

\* parse_range_filter
ParseRangeFilter(parts) ==
  IF Len(parts) # 3
  THEN Err(<< "Range filter must be in format 'dimension:min:max'" >>)
  ELSE IF parts[2] >= parts[3]
  THEN Err(<< "Minimum value must be less than maximum value" >>)
  ELSE Ok([dimension |-> parts[1], min_value |-> parts[2], max_value |-> parts[3]])

\* impl From<RangeFilterArg> for FilterConfig
FromRangeFilterArg(arg) ==
  [dimension_name |-> arg.dimension, min_value |-> arg.min_value,
   max_value |-> arg.max_value]

\* validate_config, for one Range filter of the configuration.
ValidateConfig(params) ==
  IF params.min_value >= params.max_value
  THEN Err(<< "Configuration validation failed" >>)
  ELSE Ok(params)

\* FilterConfig::to_filter, the Range arm.
ToFilter(params) ==
  NCRangeFilter(params.dimension_name, params.min_value, params.max_value)

\* The configuration layer returned Err(e): the job never starts.
Rejected(e) ==
  /\ pc' = "failed"
  /\ err' = Some(e)
  /\ UNCHANGED << var_name, dimension_order, dimension_indices, explicit_combinations,
                  result, folded, filters, combinations, reads, rows, columns >>

\* The convert command with one --range argument: parse_range_filter, the
\* conversion to a FilterConfig, validate_config, then the job.
CliRangeJob ==
  /\ pc = "folding"
  /\ filters = << >>
  /\ \E parts \in RangeArgs :
       \E parsed \in {ParseRangeFilter(parts)} :
         IF ~parsed.ok THEN Rejected(parsed.err)
         ELSE \E checked \in {ValidateConfig(FromRangeFilterArg(parsed.value))} :
                IF ~checked.ok THEN Rejected(checked.err)
                ELSE FilterStep(ToFilter(checked.value))

\* The convert command with a configuration file holding one Range filter:
\* validate_config, then the job.
ConfigFileRangeJob ==
  /\ pc = "folding"
  /\ filters = << >>
  /\ \E params \in RangeConfigs :
       \E checked \in {ValidateConfig(params)} :
         IF ~checked.ok THEN Rejected(checked.err)
         ELSE FilterStep(ToFilter(checked.value))

\* process_netcdf_job called with a JobConfig holding one Range filter:
\* to_filter, then the extraction.
LibraryRangeJob ==
  /\ pc = "folding"
  /\ filters = << >>
  /\ \E params \in RangeConfigs : FilterStep(ToFilter(params))

NextConfig == CliRangeJob \/ ConfigFileRangeJob \/ LibraryRangeJob \/ Extract

SpecConfig == InitJob /\ [][NextConfig]_vars

\* =================================================================== claims
\* The dimensions named by the Single results folded so far.
NamedBySingle ==
  { folded[k].dimension : k \in { j \in 1 .. Len(folded) : folded[j].kind = "Single" } }

\* TRUE when some Pairs or Triplets result has been folded.
ExplicitFolded == \E k \in 1 .. Len(folded) : folded[k].kind # "Single"

\* The coordinate tuples whose every component is a candidate of its
\* dimension: the cartesian product of the candidate sets in dimension_order.
LegalTuples ==
  { t \in [1 .. Len(dimension_order) -> IndexRange(DimLen)] :
      \A p \in 1 .. Len(dimension_order) : t[p] \in dimension_indices[dimension_order[p]] }

\* Tuple t satisfies the folded result r.
Satisfies(t, r) ==
  IF r.kind = "Single"
  THEN t[Position(dimension_order, r.dimension)] \in SeqToSet(r.indices)
  ELSE IF r.kind = "Pairs"
  THEN << t[Position(dimension_order, r.lat_dimension)],
          t[Position(dimension_order, r.lon_dimension)] >> \in SeqToSet(r.pairs)
  ELSE << t[Position(dimension_order, r.time_dimension)],
          t[Position(dimension_order, r.lat_dimension)],
          t[Position(dimension_order, r.lon_dimension)] >> \in SeqToSet(r.triplets)

\* C1: after any sequence of successful folds, every coordinate tuple the
\* enumeration returns satisfies every folded result (Single: its index at d
\* is in S; Pairs: its two indices are one of the pairs; Triplets: its three
\* indices are one of the triplets).
C1_EnumerationSatisfiesEveryFold ==
  pc = "enumerated" =>
    \A k \in 1 .. Len(Unwrap(combinations)) :
      \A j \in 1 .. Len(folded) : Satisfies(Unwrap(combinations)[k], folded[j])

\* The two results folded into the fresh manager are Single results on the
\* same dimension d of the variable.
TwoSinglesOn(d) ==
  /\ Len(folded) = 2
  /\ folded[1].kind = "Single" /\ folded[2].kind = "Single"
  /\ folded[1].dimension = d /\ folded[2].dimension = d

\* C2: folding Single{d,A} then Single{d,B} into a fresh manager leaves d's
\* candidate set equal to what folding Single{d, A \cap B} alone leaves:
\* {0 .. size-1} \cap (A \cap B).
C2_SameDimensionIsIntersection ==
  \A d \in DOMAIN dimension_indices :
    TwoSinglesOn(d) =>
      dimension_indices[d] =
        IndexRange(DimSize(d)) \cap (SeqToSet(folded[1].indices) \cap SeqToSet(folded[2].indices))

\* Reached: two Single results on one dimension, neither index set inside the other.
C2_Witness ==
  \E d \in DOMAIN dimension_indices :
    /\ TwoSinglesOn(d)
    /\ SeqToSet(folded[1].indices) \ SeqToSet(folded[2].indices) # {}
    /\ SeqToSet(folded[2].indices) \ SeqToSet(folded[1].indices) # {}

\* C3: for two Single results A, B on the same dimension, folding A then B
\* yields the candidate set that folding B then A yields.
C3_SameDimensionOrderIndependent ==
  \A d \in DOMAIN dimension_indices :
    TwoSinglesOn(d) =>
      dimension_indices[d] =
        IntersectIndices(IntersectIndices(NewDimensionIndices(dimension_order)[d],
                                          folded[2].indices),
                         folded[1].indices)

\* Reached: two Single results on one dimension with different, overlapping index sets.
C3_Witness ==
  \E d \in DOMAIN dimension_indices :
    /\ TwoSinglesOn(d)
    /\ SeqToSet(folded[1].indices) # SeqToSet(folded[2].indices)
    /\ SeqToSet(folded[1].indices) \cap SeqToSet(folded[2].indices) # {}
    /\ dimension_indices[d] # IndexRange(DimSize(d))

\* C4: a fresh manager holds {0 .. size-1} for every dimension of the target
\* variable, and after any sequence of folds every dimension no Single
\* result named still holds {0 .. size-1}.
C4_UnnamedDimensionsStayFull ==
  /\ DOMAIN dimension_indices = SeqToSet(dimension_order)
  /\ \A d \in DOMAIN dimension_indices :
       d \notin NamedBySingle => dimension_indices[d] = 0 .. (DimSize(d) - 1)

\* Reached: a Pairs or Triplets result was folded, one dimension was narrowed by a Single, another was never named.
C4_Witness ==
  /\ ExplicitFolded
  /\ \E d1, d2 \in DOMAIN dimension_indices :
       /\ d1 \in NamedBySingle
       /\ dimension_indices[d1] # IndexRange(DimSize(d1))
       /\ d2 \notin NamedBySingle
       /\ dimension_indices[d2] = IndexRange(DimSize(d2))

\* The product of the candidate-set sizes of the first n dimensions.
RECURSIVE CandidateProduct(_)
CandidateProduct(n) ==
  IF n = 0 THEN 1
  ELSE CandidateProduct(n - 1) * Cardinality(dimension_indices[dimension_order[n]])

\* C5: when no Pairs or Triplets result has been folded, the enumeration is
\* exactly the cartesian product of the candidate sets in dimension_order, and
\* the number of tuples is the product of the candidate-set sizes (zero when a
\* candidate set is empty).
C5_EnumerationIsCartesianProduct ==
  (pc = "enumerated" /\ ~ExplicitFolded) =>
    /\ SeqToSet(Unwrap(combinations)) = LegalTuples
    /\ Len(Unwrap(combinations)) = CandidateProduct(Len(dimension_order))

\* Reached: two Single results narrowed a variable of rank 3 or more to two tuples.
C5_Witness ==
  /\ pc = "enumerated"
  /\ ~ExplicitFolded
  /\ Len(folded) = 2
  /\ Len(dimension_order) >= 3
  /\ Len(Unwrap(combinations)) = 2
  /\ \E d \in DOMAIN dimension_indices : Cardinality(dimension_indices[d]) = 2

\* s comes before t in lexicographic order (first position varies slowest).
LexLess(s, t) ==
  \E p \in 1 .. Len(s) :
    /\ p <= Len(t)
    /\ s[p] < t[p]
    /\ \A q \in 1 .. (p - 1) : s[q] = t[q]

\* C6: with no explicit override the enumeration lists every legal tuple
\* exactly once, in lexicographic order by dimension_order with ascending
\* indices, so the sequence is determined by the manager state alone.
C6_EnumerationIsLexicographic ==
  (pc = "enumerated" /\ ~IsSome(explicit_combinations)) =>
    /\ \A k \in 1 .. (Len(Unwrap(combinations)) - 1) :
         LexLess(Unwrap(combinations)[k], Unwrap(combinations)[k + 1])
    /\ \A t \in LegalTuples :
         Cardinality({ k \in 1 .. Len(Unwrap(combinations)) : Unwrap(combinations)[k] = t }) = 1
    /\ \A k \in 1 .. Len(Unwrap(combinations)) : Unwrap(combinations)[k] \in LegalTuples

\* Reached: (time, lat, lon) with lat narrowed to {0}: four tuples in lexicographic order.
C6_Witness ==
  /\ pc = "enumerated"
  /\ ~IsSome(explicit_combinations)
  /\ dimension_order = << "time", "lat", "lon" >>
  /\ Unwrap(combinations) = << <<0, 0, 0>>, <<0, 0, 1>>, <<1, 0, 0>>, <<1, 0, 1>> >>

\* The latest apply_filter_result call folded a result of the given kind.
JustFolded(kind) ==
  /\ pc # "failed"
  /\ IsSome(result)
  /\ Unwrap(result).kind = kind
  /\ Len(folded) > 0
  /\ folded[Len(folded)] = Unwrap(result)

\* The product of the candidate-set sizes of the first n dimensions, the
\* positions in skip left out.
RECURSIVE OtherProduct(_, _)
OtherProduct(n, skip) ==
  IF n = 0 THEN 1
  ELSE OtherProduct(n - 1, skip)
       * (IF n \in skip THEN 1 ELSE Cardinality(dimension_indices[dimension_order[n]]))

\* The assignments of the current candidate sets to the positions outside
\* skip (the positions in skip hold 0 until an index is placed there).
OtherAssignments(skip) ==
  { t \in [1 .. Len(dimension_order) -> IndexRange(DimLen)] :
      \A p \in 1 .. Len(dimension_order) :
        IF p \in skip THEN t[p] = 0
        ELSE t[p] \in dimension_indices[dimension_order[p]] }

\* C7: folding Pairs{dim_a, dim_b, pairs} sets the explicit override to the
\* tuples that cross every assignment of the current candidate sets of the
\* other dimensions with every pair (i, j), i placed at dim_a's position and
\* j at dim_b's: one tuple per assignment and pair.
C7_PairsOverrideIsCrossProduct ==
  JustFolded("Pairs") =>
    LET r == Unwrap(result)
        a == Position(dimension_order, r.lat_dimension)
        b == Position(dimension_order, r.lon_dimension)
    IN  /\ IsSome(explicit_combinations)
        /\ SeqToSet(Unwrap(explicit_combinations)) =
             { [[t EXCEPT ![a] = pair[1]] EXCEPT ![b] = pair[2]] :
                 t \in OtherAssignments({a, b}), pair \in SeqToSet(r.pairs) }
        /\ Len(Unwrap(explicit_combinations)) =
             Len(r.pairs) * OtherProduct(Len(dimension_order), {a, b})

\* Scenario 4 of the specification: (time, lat, lon), time restricted to
\* {0,1}, pairs {(1,1)}: exactly the tuples (0,1,1) and (1,1,1).
C7_Witness ==
  /\ JustFolded("Pairs")
  /\ dimension_order = << "time", "lat", "lon" >>
  /\ folded = << Single("time", << 0, 1 >>), Pairs("lat", "lon", << << 1, 1 >> >>) >>
  /\ SeqToSet(Unwrap(explicit_combinations)) = { << 0, 1, 1 >>, << 1, 1, 1 >> }
  /\ Len(Unwrap(explicit_combinations)) = 2

\* C8: folding Triplets builds the explicit override as Pairs does: every
\* triplet is crossed with every assignment of the current candidate sets of
\* the dimensions outside the triplet; for a variable of exactly those three
\* dimensions each triplet becomes exactly one tuple.
C8_TripletsOverrideIsCrossProduct ==
  JustFolded("Triplets") =>
    LET r == Unwrap(result)
        tp == Position(dimension_order, r.time_dimension)
        a == Position(dimension_order, r.lat_dimension)
        b == Position(dimension_order, r.lon_dimension)
    IN  /\ IsSome(explicit_combinations)
        /\ SeqToSet(Unwrap(explicit_combinations)) =
             { t \in [1 .. Len(dimension_order) -> IndexRange(DimLen)] :
                 /\ << t[tp], t[a], t[b] >> \in SeqToSet(r.triplets)
                 /\ \A p \in (1 .. Len(dimension_order)) \ {tp, a, b} :
                      t[p] \in dimension_indices[dimension_order[p]] }
        /\ Len(dimension_order) = 3 =>
             Len(Unwrap(explicit_combinations)) = Len(r.triplets)

\* C9: the final enumeration never contains the same coordinate tuple twice,
\* whatever duplicates the folded results carried.
C9_EnumerationHasNoDuplicates ==
  pc = "enumerated" =>
    \A i, j \in 1 .. Len(Unwrap(combinations)) :
      i # j => Unwrap(combinations)[i] # Unwrap(combinations)[j]

\* The Range filter f lies entirely outside the coordinates of its dimension.
OutsideRange(f) ==
  /\ f.kind = "range"
  /\ f.dimension_name \in FileVariables
  /\ \/ \A k \in 1 .. DimSize(f.dimension_name) :
          f.min_value > CoordValues(f.dimension_name)[k]
     \/ \A k \in 1 .. DimSize(f.dimension_name) :
          f.max_value < CoordValues(f.dimension_name)[k]

\* C10: a Range filter lying entirely outside the coordinates of its
\* dimension yields a Single result without indices, and the extraction then
\* produces zero rows whatever filters come before or after it.
C10_OutsideRangeGivesNoRows ==
  \A k \in 1 .. Len(filters) :
    OutsideRange(filters[k]) =>
      /\ NCRangeFilterApply(filters[k]).value.indices = << >>
      /\ pc = "extracted" => Len(Unwrap(rows)) = 0

\* The latest fold was a Pairs or Triplets result, and an earlier fold had
\* already set an explicit override.
SecondExplicitFolded ==
  /\ (JustFolded("Pairs") \/ JustFolded("Triplets"))
  /\ \E k \in 1 .. (Len(folded) - 1) : folded[k].kind # "Single"

C12_EnumerationIsOverrideVerbatim ==
  (pc = "enumerated" /\ IsSome(explicit_combinations)) =>
    Unwrap(combinations) = Unwrap(explicit_combinations)

\* Reached: an override of two or more tuples was enumerated although a
\* later Single result left a candidate set that excludes one of its tuples.
C12_Witness ==
  /\ pc = "enumerated"
  /\ IsSome(explicit_combinations)
  /\ Len(Unwrap(combinations)) >= 2
  /\ \E k \in 1 .. Len(Unwrap(combinations)) : Unwrap(combinations)[k] \notin LegalTuples

\* The dimension names a Pairs or Triplets result carries.
ExplicitDims(r) ==
  IF r.kind = "Pairs" THEN {r.lat_dimension, r.lon_dimension}
  ELSE {r.time_dimension, r.lat_dimension, r.lon_dimension}

\* C13: a Single result whose dimension is not in dimension_order fails with
\* the unknown-dimension error naming it; a Pairs or Triplets result naming a
\* dimension not in dimension_order fails with the dimension-not-found error
\* naming such a dimension.
C13_UnknownDimensionFails ==
  IsSome(result) =>
    LET r == Unwrap(result)
    IN  IF r.kind = "Single"
        THEN r.dimension \notin SeqToSet(dimension_order) =>
               /\ pc = "failed"
               /\ err = Some(<< "Unknown dimension: ", r.dimension >>)
        ELSE ExplicitDims(r) \ SeqToSet(dimension_order) # {} =>
               /\ pc = "failed"
               /\ \E d \in ExplicitDims(r) \ SeqToSet(dimension_order) :
                    err = Some(<< "Dimension ", d, " not found" >>)

\* Reached: a Pairs result on (lat, lon) was folded into the manager of a
\* variable over time only, and the error names lat.
C13_Witness ==
  /\ pc = "failed"
  /\ dimension_order = << "time" >>
  /\ IsSome(result)
  /\ Unwrap(result).kind = "Pairs"
  /\ err = Some(<< "Dimension ", "lat", " not found" >>)

\* C14: the extraction of a variable whose rank is outside 1..4 never
\* succeeds, and once attempted it has failed with the unsupported-rank error
\* before any scalar of the field was read, whatever filters were applied.
C14_UnsupportedRankAlwaysFails ==
  Len(dimension_order) \notin 1 .. 4 =>
    /\ pc # "extracted"
    /\ IsSome(combinations) =>
         /\ pc = "failed"
         /\ err = Some(<< "Unsupported number of dimensions: ", Len(dimension_order) >>)
         /\ reads = << >>

C16_OneRowPerCombination ==
  pc = "extracted" =>
    /\ Len(Unwrap(rows)) = Len(Unwrap(combinations))
    /\ reads = Unwrap(combinations)
    /\ \A k \in 1 .. Len(Unwrap(rows)) :
         Unwrap(rows)[k].value = FieldValue(dimension_order, Unwrap(combinations)[k])
    /\ \A p \in 1 .. Len(Unwrap(columns)) :
         Len(Unwrap(columns)[p].values) = Len(Unwrap(combinations))

\* Reached: an extraction after a Point2D filter whose enumeration lists a
\* tuple twice, two rows for it.
C16_Witness ==
  /\ pc = "extracted"
  /\ Len(filters) >= 1
  /\ Len(Unwrap(rows)) >= 2
  /\ Unwrap(combinations)[1] = Unwrap(combinations)[2]

\* C17: in every output row the coordinate of dimension d is coord_d[index]
\* when the file has a coordinate vector named d, and the raw index otherwise.
C17_DisplayCoordinates ==
  pc = "extracted" =>
    \A k \in 1 .. Len(Unwrap(combinations)) :
      \A p \in 1 .. Len(dimension_order) :
        Unwrap(columns)[p].values[k] =
          IF dimension_order[p] \in FileVariables
          THEN CoordValues(dimension_order[p])[Unwrap(combinations)[k][p] + 1]
          ELSE Unwrap(combinations)[k][p]

\* Reached: a row of a four-dimensional field at level index 1 and lat index
\* 1: the level column holds 1 (no coordinate vector), the lat column 20.
C17_Witness ==
  /\ pc = "extracted"
  /\ dimension_order = << "time", "level", "lat", "lon" >>
  /\ \E k \in 1 .. Len(Unwrap(combinations)) :
       /\ Unwrap(combinations)[k][2] = 1
       /\ Unwrap(combinations)[k][3] = 1
       /\ Unwrap(rows)[k].coords[2] = 1
       /\ Unwrap(rows)[k].coords[3] = 20

\* C18: the table's columns are one per dimension, in dimension_order, and
\* then one value column named after the target variable, all of one length.
C18_ColumnsInDimensionOrder ==
  pc = "extracted" =>
    /\ [p \in 1 .. Len(Unwrap(columns)) |-> Unwrap(columns)[p].name] =
         Append(dimension_order, var_name)
    /\ \A p, q \in 1 .. Len(Unwrap(columns)) :
         Len(Unwrap(columns)[p].values) = Len(Unwrap(columns)[q].values)

\* Reached: a table of (time, lat, lon, temperature) with at least one row.
C18_Witness ==
  /\ pc = "extracted"
  /\ dimension_order = << "time", "lat", "lon" >>
  /\ Len(Unwrap(columns)) = 4
  /\ Unwrap(columns)[4].name = "temperature"
  /\ Len(Unwrap(columns)[4].values) >= 1

\* The filter evaluated last is of the given kind and names a dimension
\* that has a coordinate vector.
LastFilterOn(kind) ==
  /\ Len(filters) > 0
  /\ filters[Len(filters)].kind = kind
  /\ filters[Len(filters)].dimension_name \in FileVariables

\* C19: a Range filter (d, min, max) returns a Single result for d holding
\* index i exactly when min <= coord[i] <= max, both bounds inclusive.
C19_RangeIsInclusive ==
  LastFilterOn("range") =>
    LET f == filters[Len(filters)]
    IN  /\ IsSome(result)
        /\ Unwrap(result).kind = "Single"
        /\ Unwrap(result).dimension = f.dimension_name
        /\ SeqToSet(Unwrap(result).indices) =
             { i \in IndexRange(DimSize(f.dimension_name)) :
                 /\ f.min_value <= CoordValues(f.dimension_name)[i + 1]
                 /\ CoordValues(f.dimension_name)[i + 1] <= f.max_value }

\* Reached: a Range filter whose bounds are the first and the last
\* coordinate of lat, keeping both of them.
C19_Witness ==
  /\ LastFilterOn("range")
  /\ filters[Len(filters)].dimension_name = "lat"
  /\ filters[Len(filters)].min_value = CoordValues("lat")[1]
  /\ filters[Len(filters)].max_value = CoordValues("lat")[DimSize("lat")]
  /\ {0, DimSize("lat") - 1} \subseteq SeqToSet(Unwrap(result).indices)

\* C20: a List filter (d, values) returns a Single result for d holding
\* index i exactly when coord[i] equals one of the listed values.
C20_ListIsExactMatch ==
  LastFilterOn("list") =>
    LET f == filters[Len(filters)]
    IN  /\ IsSome(result)
        /\ Unwrap(result).kind = "Single"
        /\ Unwrap(result).dimension = f.dimension_name
        /\ SeqToSet(Unwrap(result).indices) =
             { i \in IndexRange(DimSize(f.dimension_name)) :
                 CoordValues(f.dimension_name)[i + 1] \in SeqToSet(f.values) }

\* Reached: a List filter on lat listing the first coordinate and a value
\* between two coordinates, keeping index 0 only.
C20_Witness ==
  /\ LastFilterOn("list")
  /\ filters[Len(filters)] = NCListFilter("lat", << 10, 15 >>)
  /\ Unwrap(result) = Single("lat", << 0 >>)

\* The last filter of the job, when there is one.
LastFilter == filters[Len(filters)]

\* The dimension names the filter f is configured with.
FilterDimensions(f) ==
  IF f.kind \in {"range", "list"} THEN {f.dimension_name}
  ELSE IF f.kind = "2d_point" THEN {f.lat_dimension_name, f.lon_dimension_name}
  ELSE {f.time_dimension_name, f.lat_dimension_name, f.lon_dimension_name}

\* The last filter is of the given kind and every dimension it names has a
\* coordinate variable.
LastFilterIs(kind) ==
  /\ Len(filters) > 0
  /\ LastFilter.kind = kind
  /\ FilterDimensions(LastFilter) \subseteq FileVariables

\* The index pairs (i, j) for which some point of the point filter f lies
\* within the tolerance of both coordinates.
SpatialMatches(f) ==
  { ij \in IndexRange(DimSize(f.lat_dimension_name))
            \X IndexRange(DimSize(f.lon_dimension_name)) :
      \E p \in 1 .. Len(f.points) :
        /\ Abs(CoordValues(f.lat_dimension_name)[ij[1] + 1] - f.points[p][1]) <= f.tolerance
        /\ Abs(CoordValues(f.lon_dimension_name)[ij[2] + 1] - f.points[p][2]) <= f.tolerance }

\* C21: a Point2D filter (dim_a, dim_b, points, tolerance) returns a Pairs
\* result anchored to its two dimensions holding (i, j) exactly when some
\* point (pa, pb) has |coord_a[i] - pa| <= tolerance and
\* |coord_b[j] - pb| <= tolerance.
C21_Point2DIsToleranceMatch ==
  LastFilterIs("2d_point") =>
    /\ IsSome(result)
    /\ Unwrap(result).kind = "Pairs"
    /\ Unwrap(result).lat_dimension = LastFilter.lat_dimension_name
    /\ Unwrap(result).lon_dimension = LastFilter.lon_dimension_name
    /\ SeqToSet(Unwrap(result).pairs) = SpatialMatches(LastFilter)

\* Reached: a point at the last coordinates with a tolerance equal to the
\* coordinate spacing, matching the neighbouring cells at exactly the
\* tolerance.
C21_Witness ==
  /\ LastFilterIs("2d_point")
  /\ LastFilter = NC2DPointFilter("lat", "lon", << << 20, 20 >> >>, 10)
  /\ Unwrap(result).pairs = << << 0, 0 >>, << 0, 1 >>, << 1, 0 >>, << 1, 1 >> >>

\* The time indices whose coordinate equals one of the steps of f.
StepMatches(f) ==
  { t \in IndexRange(DimSize(f.time_dimension_name)) :
      CoordValues(f.time_dimension_name)[t + 1] \in SeqToSet(f.steps) }

\* C22: a Point3D filter returns a Triplets result whose set is the full
\* cross product of the time indices whose coordinate exactly equals one of
\* the steps with the spatial pairs matched as by Point2D; when no time
\* index matches, the list is empty.
C22_Point3DIsCrossProduct ==
  LastFilterIs("3d_point") =>
    /\ IsSome(result)
    /\ Unwrap(result).kind = "Triplets"
    /\ Unwrap(result).time_dimension = LastFilter.time_dimension_name
    /\ Unwrap(result).lat_dimension = LastFilter.lat_dimension_name
    /\ Unwrap(result).lon_dimension = LastFilter.lon_dimension_name
    /\ SeqToSet(Unwrap(result).triplets) =
         { << t, ij[1], ij[2] >> :
             t \in StepMatches(LastFilter), ij \in SpatialMatches(LastFilter) }
    /\ StepMatches(LastFilter) = {} => Unwrap(result).triplets = << >>

\* Reached: two steps that both match and one point matching one cell give
\* the two triplets of that cell.
C22_Witness ==
  /\ LastFilterIs("3d_point")
  /\ LastFilter = NC3DPointFilter("time", "lat", "lon", << 10, 20 >>, << << 20, 20 >> >>, 1)
  /\ Unwrap(result).triplets = << << 0, 1, 1 >>, << 1, 1, 1 >> >>

\* C23: applying a filter (Range, List, Point2D, Point3D) that names a
\* dimension without a coordinate variable fails with an error naming a
\* missing dimension, and the job fails.
C23_MissingCoordinateVariableFails ==
  (Len(filters) > 0 /\ ~(FilterDimensions(LastFilter) \subseteq FileVariables)) =>
    /\ pc = "failed"
    /\ IsSome(err)
    /\ Len(Unwrap(err)) = 3
    /\ Unwrap(err)[2] \in FilterDimensions(LastFilter) \ FileVariables
    /\ Unwrap(err)[3] = "' not found"
    /\ rows = None

\* Reached: a Point2D filter whose second dimension has no coordinate
\* variable fails naming it.
C23_Witness ==
  /\ Len(filters) > 0
  /\ LastFilter.kind = "2d_point"
  /\ LastFilter.lat_dimension_name = "lat"
  /\ LastFilter.lon_dimension_name = "level"
  /\ pc = "failed"
  /\ err = Some(<< "Longitude variable '", "level", "' not found" >>)

\* C24: a Range filter whose min is not less than its max is rejected by
\* the configuration layer before it is applied to the data source, whether
\* it arrives as a --range argument or as a Range filter of a job
\* configuration: no applied Range filter has min >= max.
C24_InvertedRangeNeverApplied ==
  \A k \in 1 .. Len(filters) :
    filters[k].kind = "range" => filters[k].min_value < filters[k].max_value

\* C25: every enumerated tuple has as many components as the variable has
\* dimensions and every component is a valid position of its dimension
\* (the folded results reference valid positions only).
C25_TuplesHaveRankAndValidPositions ==
  pc = "enumerated" =>
    \A k \in 1 .. Len(Unwrap(combinations)) :
      /\ Len(Unwrap(combinations)[k]) = Len(dimension_order)
      /\ \A p \in 1 .. Len(dimension_order) :
           Unwrap(combinations)[k][p] \in IndexRange(DimSize(dimension_order[p]))

\* other_dimensions as the claim describes it: every other dimension's
\* candidate set in ascending order.
OtherDimensionsSorted(order, indicesMap, lat_pos, lon_pos) ==
  LET ps == OtherPositions(order, lat_pos, lon_pos)
  IN  [k \in 1 .. Len(ps) |->
         << ps[k],
            SortAscending(CHOOSE o \in Orderings(indicesMap[order[ps[k]]]) : TRUE) >>]

\* C26: in the Pairs override the other dimensions' candidate sets are taken
\* in ascending order, so the order of the tuples is deterministic: the
\* assignments of the other dimensions in lexicographic ascending order and,
\* within each, the pairs in the order given.
C26_PairsOverrideOrderIsSorted ==
  (JustFolded("Pairs") /\ Unwrap(result).lat_dimension # Unwrap(result).lon_dimension) =>
    LET r == Unwrap(result)
        a == Position(dimension_order, r.lat_dimension)
        b == Position(dimension_order, r.lon_dimension)
    IN  explicit_combinations =
          Some(GenerateCombinationsWithPairs(
                 Len(dimension_order),
                 OtherDimensionsSorted(dimension_order, dimension_indices, a, b),
                 r.pairs, a, b, << >>, 1))

\* C27: a fold changes only its own part of the manager: Single{d} changes
\* the candidate set of d only (the other candidate sets, dimension_order and
\* the override stay); Pairs and Triplets change the override only.
C27_FoldChangesOnlyItsPart ==
  [][ Len(folded') = Len(folded) + 1 =>
        LET r == folded'[Len(folded')]
        IN  /\ dimension_order' = dimension_order
            /\ DOMAIN dimension_indices' = DOMAIN dimension_indices
            /\ IF r.kind = "Single"
               THEN /\ \A d \in DOMAIN dimension_indices \ {r.dimension} :
                         dimension_indices'[d] = dimension_indices[d]
                    /\ explicit_combinations' = explicit_combinations
               ELSE dimension_indices' = dimension_indices ]_vars

\* Reached: a Single folded after a Pairs narrowed its candidate set and the
\* override of the Pairs is still there.
C27_Witness ==
  /\ pc = "folding"
  /\ dimension_order = << "time", "lat", "lon" >>
  /\ folded = << Pairs("lat", "lon", << << 1, 1 >> >>), Single("time", << 0 >>) >>
  /\ dimension_indices["time"] = {0}
  /\ IsSome(explicit_combinations)
  /\ Len(Unwrap(explicit_combinations)) = DimLen

\* One Single on time and one Pairs on (lat, lon) were folded, in either
\* order, into a variable that has the three dimensions.
SingleTimeAndPairsFolded ==
  /\ Len(folded) = 2
  /\ {"time", "lat", "lon"} \subseteq SeqToSet(dimension_order)
  /\ \E s, p \in 1 .. 2 :
       /\ s # p
       /\ folded[s].kind = "Single" /\ folded[s].dimension = "time"
       /\ folded[p].kind = "Pairs"
       /\ folded[p].lat_dimension = "lat" /\ folded[p].lon_dimension = "lon"

\* C28: the set of tuples enumerated after Single{time} and Pairs{lat, lon}
\* does not depend on the order of the two folds: it is the set the order
\* Single-then-Pairs builds, the pairs crossed with the narrowed candidate
\* sets of the other dimensions.
C28_SingleAndPairsOrderIndependent ==
  (pc = "enumerated" /\ SingleTimeAndPairsFolded) =>
    LET r == IF folded[1].kind = "Pairs" THEN folded[1] ELSE folded[2]
        a == Position(dimension_order, "lat")
        b == Position(dimension_order, "lon")
    IN  SeqToSet(Unwrap(combinations)) =
          { [[t EXCEPT ![a] = pair[1]] EXCEPT ![b] = pair[2]] :
              t \in OtherAssignments({a, b}), pair \in SeqToSet(r.pairs) }

\* C29: a fold that fails leaves the manager as it was: candidate sets,
\* dimension_order and override.
C29_FailedFoldChangesNothing ==
  [][ (pc = "folding" /\ pc' = "failed") =>
        /\ dimension_indices' = dimension_indices
        /\ dimension_order' = dimension_order
        /\ explicit_combinations' = explicit_combinations ]_vars

\* Reached: a fold failed after an earlier fold had set the override, and
\* the override is still there.
C29_Witness ==
  /\ pc = "failed"
  /\ Len(folded) = 1
  /\ IsSome(result)
  /\ IsSome(explicit_combinations)
  /\ Len(Unwrap(explicit_combinations)) > 0

\* The entries of an explicit result.
Entries(r) == IF r.kind = "Pairs" THEN r.pairs ELSE r.triplets

\* The last folded result is a Pairs or Triplets result without entries.
EmptyExplicitFolded ==
  /\ Len(folded) > 0
  /\ folded[Len(folded)].kind # "Single"
  /\ Entries(folded[Len(folded)]) = << >>

\* C30: a Pairs or Triplets result without entries sets an empty override,
\* not an absent one: the enumeration is empty and the extraction yields
\* zero rows, with no fall back to the cartesian product.
C30_EmptyOverrideGivesNoRows ==
  EmptyExplicitFolded =>
    /\ explicit_combinations = Some(<< >>)
    /\ IsSome(combinations) => Unwrap(combinations) = << >>
    /\ IsSome(rows) => Unwrap(rows) = << >>
    /\ pc = "extracted" => rows = Some(<< >>)

\* Reached: a Point3D filter matching nothing on a (time, lat, lon)
\* variable, extracted to a table of zero rows.
C30_Witness ==
  /\ EmptyExplicitFolded
  /\ dimension_order = << "time", "lat", "lon" >>
  /\ folded[Len(folded)].kind = "Triplets"
  /\ pc = "extracted"
  /\ combinations = Some(<< >>)
  /\ rows = Some(<< >>)

====
